---- MODULE Spec2Model ----
(***************************************************************************)
(* The command-line tools of the repository, each a program of its own     *)
(* with its own specification:                                             *)
(*                                                                         *)
(*   Spec          the changelog generator                                 *)
(*                 (actions/devops/changelog-conventional-commit): the     *)
(*                 squash-body segmenter (get_commit_squash), the PR       *)
(*                 commit collector (get_commits_pr) and the               *)
(*                 conventional-commit grouper (group_commits), driven as  *)
(*                 main() drives them                                      *)
(*   VersionSpec   the version tool                                        *)
(*                 (actions/devops/versioning-branch-semantic), run again  *)
(*                 and again on the same config file                       *)
(*   SecuritySpec  the security reporter (actions/python/security-comment) *)
(*   PytestSpec    the pytest reporter (actions/python/pytest-comment)     *)
(*                                                                         *)
(* Text is a sequence of one-character strings.  body holds the lines of   *)
(* the squash body read so far (what str.splitlines() yields), raw the     *)
(* chunks of the git log output read so far; the input ends when the       *)
(* environment says so, within MaxLines lines or MaxChunks chunks.         *)
(***************************************************************************)
EXTENDS Integers, Sequences, FiniteSets, TLC

\* the changelog generator
VARIABLES mode, pc, body, raw, commits, current, grouped, k, out

\* the version tool (actions/devops/versioning-branch-semantic): the rules
\* and the version of pyproject.toml, the arguments of the run, the locals of
\* main(), the position in main() and the runs made so far
VARIABLES cfg, pyproject, args, current_version, next_version, result, vpc,
          runs

\* the security reporter (actions/python/security-comment): the results of
\* bandit.json read so far, the issues loaded from them, the arguments, the
\* status message, the exit status and the position in cli()
VARIABLES bandit_results, issues, sec_args, status_msg, sec_exit, spc

\* the pytest reporter (actions/python/pytest-comment): coverage.json and
\* the suites of junit.xml read so far, the arguments, the locals of
\* check_exit() and main(), the outputs written, the exit status and the
\* position in cli()
VARIABLES cov_report, junit_root, junit_suites, py_args, coverage, test_stats,
          outputs, py_exit, ppc

changelogVars == <<mode, pc, body, raw, commits, current, grouped, k, out>>

versionVars ==
    <<cfg, pyproject, args, current_version, next_version, result, vpc, runs>>

securityVars == <<bandit_results, issues, sec_args, status_msg, sec_exit, spc>>

pytestVars ==
    <<cov_report, junit_root, junit_suites, py_args, coverage, test_stats,
      outputs, py_exit, ppc>>

vars == <<changelogVars, versionVars, securityVars, pytestVars>>

\* the tools are separate programs: while one runs, the state of the others
\* is not there
VersionIdle ==
    /\ cfg = <<>>
    /\ pyproject = <<>>
    /\ args = <<>>
    /\ current_version = <<>>
    /\ next_version = <<>>
    /\ result = <<>>
    /\ vpc = "off"
    /\ runs = 0

SecurityIdle ==
    /\ bandit_results = <<>>
    /\ issues = <<>>
    /\ sec_args = <<>>
    /\ status_msg = <<>>
    /\ sec_exit = <<>>
    /\ spc = "off"

PytestIdle ==
    /\ cov_report = <<>>
    /\ junit_root = "off"
    /\ junit_suites = <<>>
    /\ py_args = <<>>
    /\ coverage = <<>>
    /\ test_stats = <<>>
    /\ outputs = <<>>
    /\ py_exit = <<>>
    /\ ppc = "off"

otherThanChangelog == <<versionVars, securityVars, pytestVars>>

\* ------------------------------------------------------------------------
\* Bounds of the model
\* ------------------------------------------------------------------------
MaxLines == 3
MaxChunks == 2
MaxRuns == 2
MaxIssues == 2
MaxSuites == 2

\* ------------------------------------------------------------------------
\* Characters and the str / re primitives the code uses
\* ------------------------------------------------------------------------
NL == "\n"

\* the characters of the model's texts that the regex class \w matches
WordChars == {"a", "b", "c", "d", "e", "t", "x", "w", "i", "p", "W", "P"}

\* the characters str.strip() removes and the regex class \s matches
SpaceChars == {" ", "\t", NL}

\* str.lower(), character by character
LowerChar(c) == IF c = "W" THEN "w" ELSE IF c = "P" THEN "p" ELSE c

Lower(s) == [n \in 1..Len(s) |-> LowerChar(s[n])]

\* str.startswith(prefix)
StartsWith(s, prefix) ==
    /\ Len(s) >= Len(prefix)
    /\ SubSeq(s, 1, Len(prefix)) = prefix

\* s with its first n characters dropped
Drop(s, n) == SubSeq(s, n + 1, Len(s))

\* length of the longest prefix of s made of characters of set cs
RECURSIVE Run(_, _)
Run(s, cs) ==
    IF s # <<>> /\ Head(s) \in cs THEN 1 + Run(Tail(s), cs) ELSE 0

\* s without its leading whitespace
LStrip(s) == Drop(s, Run(s, SpaceChars))

\* the sequence s reversed
Reverse(s) == [n \in 1..Len(s) |-> s[Len(s) + 1 - n]]

\* str.strip()
Strip(s) == Reverse(LStrip(Reverse(LStrip(s))))

\* position of the first ")" of s, 0 when s has none
RECURSIVE FindClose(_)
FindClose(s) ==
    IF s = <<>> THEN 0
    ELSE IF Head(s) = ")" THEN 1
    ELSE IF FindClose(Tail(s)) = 0 THEN 0
    ELSE 1 + FindClose(Tail(s))

WipPrefix == <<"w", "i", "p", ":">>

\* line.lower().startswith("wip:")
IsWip(s) == StartsWith(Lower(s), WipPrefix)

\* re.match(r"^\w+(\([^)]*\))?:", line): the position of the colon that ends
\* the match, 0 when the line does not match.  minScope is the least number
\* of characters the scope group accepts (0 for [^)]*, 1 for [^)]+).
HeaderColon(s, minScope) ==
    LET w == Run(s, WordChars)
        rest == Drop(s, w)
        close == FindClose(Drop(rest, 1))
    IN  IF w = 0 \/ rest = <<>> THEN 0
        ELSE IF rest[1] = ":" THEN w + 1
        ELSE IF /\ rest[1] = "("
                /\ close > minScope
                /\ Len(rest) >= close + 2
                /\ rest[close + 2] = ":"
             THEN w + close + 2
        ELSE 0

\* the header must be followed by a space: re.match(r"^\w+(\([^)]*\))?: ", line)
StartsRecordColonSpace(line) ==
    \/ StartsWith(line, <<"*">>)
    \/ /\ HeaderColon(line, 0) > 0
       /\ Len(line) > HeaderColon(line, 0)
       /\ line[HeaderColon(line, 0) + 1] = " "

\* line.startswith("*") or re.match(r"^\w+(\([^)]*\))?:", line)
StartsRecord(line) ==
    \/ StartsWith(line, <<"*">>)
    \/ HeaderColon(line, 0) > 0

\* re.sub(r"^[*]\s*", "", line): one star only
CleanedOneStar(line) ==
    IF StartsWith(line, <<"*">>) THEN LStrip(Drop(line, 1)) ELSE line

\* re.sub(r"^[*]+\s*", "", line)
Cleaned(line) ==
    IF StartsWith(line, <<"*">>) THEN LStrip(Drop(line, Run(line, {"*"})))
    ELSE line

\* re.sub(r"^-\s*", "", line)
Detail(line) ==
    IF StartsWith(line, <<"-">>) THEN LStrip(Drop(line, 1)) ELSE line

\* the newline is added even to an empty body
JoinBodyAlways(b, text) == b \o <<NL>> \o text

\* current["body"] after one more line is added to it
JoinBody(b, text) == IF b # <<>> THEN b \o <<NL>> \o text ELSE text

\* ------------------------------------------------------------------------
\* group_commits: classification of one subject
\* ------------------------------------------------------------------------
Other == <<"o", "t", "h", "e", "r">>

NoScope == <<"(", "n", "o", " ", "s", "c", "o", "p", "e", ")">>

\* a value that is absent (None): a dict .get() of a missing key
None == <<>>

\* the text after the colon of a subject whose header matched
AfterColon(subject) == Drop(subject, HeaderColon(subject, 1))

\* pattern.match(subject) is not None, for the pattern
\* ^(?P<type>\w+)(\((?P<scope>[^)]+)\))?:\s*(?P<desc>.+)$
\* (a subject is a single line, so "." matches each of its characters)
Matches(subject) ==
    /\ HeaderColon(subject, 1) > 0
    /\ AfterColon(subject) # <<>>

\* match.group("type")
MatchType(subject) == SubSeq(subject, 1, Run(subject, WordChars))

\* match.group("scope") or "(no scope)"
MatchScope(subject) ==
    LET w == Run(subject, WordChars)
    IN  IF subject[w + 1] = "("
        THEN SubSeq(subject, w + 2, HeaderColon(subject, 1) - 2)
        ELSE NoScope

\* match.group("desc"): \s* is greedy and gives one character back to .+
\* when nothing but whitespace follows the colon
MatchDesc(subject) ==
    LET rest == AfterColon(subject)
        ws == Run(rest, SpaceChars)
    IN  IF ws < Len(rest) THEN Drop(rest, ws) ELSE Drop(rest, Len(rest) - 1)

CommitType(subject) == IF Matches(subject) THEN MatchType(subject) ELSE Other

\* the scope group is never read: every entry goes under "(no scope)"
ScopeNeverRead(subject) == NoScope

Scope(subject) == IF Matches(subject) THEN MatchScope(subject) ELSE NoScope

Desc(subject) ==
    IF Matches(subject) THEN Strip(MatchDesc(subject)) ELSE Strip(subject)

\* commit.get(key)
Get(commit, key) == IF key \in DOMAIN commit THEN commit[key] ELSE None

\* the dict appended for one commit
Entry(commit) ==
    [title |-> Desc(commit.subject),
     scope |-> Scope(commit.subject),
     body |-> IF "body" \in DOMAIN commit THEN commit.body ELSE <<>>,
     sha |-> Get(commit, "sha"),
     sha_full |-> Get(commit, "sha_full")]

\* ------------------------------------------------------------------------
\* dict in insertion order: a sequence of [key, val]
\* ------------------------------------------------------------------------
Has(d, key) == \E n \in 1..Len(d) : d[n].key = key

IndexOf(d, key) == CHOOSE n \in 1..Len(d) : d[n].key = key

\* a missing key is created first, ahead of the keys the dict already has
TouchInFront(d, key) ==
    IF Has(d, key) THEN d ELSE <<[key |-> key, val |-> <<>>]>> \o d

\* defaultdict.__getitem__: a missing key is created, last, with the default
Touch(d, key) == IF Has(d, key) THEN d ELSE Append(d, [key |-> key, val |-> <<>>])

\* d[key], <<>> when the key is missing
ValueOf(d, key) == IF Has(d, key) THEN d[IndexOf(d, key)].val ELSE <<>>

\* list.append(entry)
ListAppend(list, entry) == Append(list, entry)

\* grouped[commit_type][scope] = [entry]: the bucket is replaced, not extended
AppendEntryReplacing(g, commit_type, scope, entry) ==
    LET g1 == Touch(g, commit_type)
        ti == IndexOf(g1, commit_type)
        m1 == Touch(g1[ti].val, scope)
        si == IndexOf(m1, scope)
    IN  [g1 EXCEPT ![ti].val = [m1 EXCEPT ![si].val = <<entry>>]]

\* grouped[commit_type][scope].insert(0, entry): newest first
AppendEntryInFront(g, commit_type, scope, entry) ==
    LET g1 == Touch(g, commit_type)
        ti == IndexOf(g1, commit_type)
        m1 == Touch(g1[ti].val, scope)
        si == IndexOf(m1, scope)
    IN  [g1 EXCEPT ![ti].val = [m1 EXCEPT ![si].val = <<entry>> \o @]]

\* grouped[commit_type][scope].append(entry)
AppendEntry(g, commit_type, scope, entry) ==
    LET g1 == Touch(g, commit_type)
        ti == IndexOf(g1, commit_type)
        m1 == Touch(g1[ti].val, scope)
        si == IndexOf(m1, scope)
    IN  [g1 EXCEPT ![ti].val = [m1 EXCEPT ![si].val = ListAppend(@, entry)]]

\* ------------------------------------------------------------------------
\* Inputs
\* ------------------------------------------------------------------------
\* the lines a squash body is made of, as str.splitlines() yields them:
\* blank lines, starred lines, headers (with and without scope, space or
\* description), details, plain text, wip lines, a line that is nearly a header
Lines ==
    {<<" ">>,
     <<"*">>,
     <<"*", "*", " ", "a", "(", "x", ")", ":", " ", "c">>,
     <<"a", "(", "x", ")", ":", " ", "b">>,
     <<"a", ":", "b">>,
     <<"a", "(", ")", ":", " ", "b">>,
     <<"a", ":">>,
     <<"b", ":", " ", "c">>,
     <<"-", " ", "d">>,
     <<"-">>,
     <<" ", "d", " ", "e", " ">>,
     <<"W", "i", "P", ":", "b">>,
     <<"*", " ", "w", "i", "p", ":", " ", "b">>,
     <<"-", " ", "w", "i", "p", ":", " ", "b">>,
     <<"a", "(", "x", ":", " ", "b">>}

\* the %s field of a git log entry
Subjects ==
    {<<"a", ":", " ", "b">>,
     <<" ", "a", "(", "x", ")", ":", " ", "c", " ">>,
     <<"w", "i", "p", ":", " ", "b">>,
     <<"W", "i", "P", ":", "b">>,
     <<"b">>,
     <<"a", ":", " ">>,
     <<"a", "(", ")", ":", " ", "b">>,
     <<>>}

\* the %b field of a git log entry
Bodies == {<<>>, <<" ", "t">>}

\* one "---END---" chunk of the git log output: split("|", 3) gives its four
\* parts, or fewer when the chunk is not a whole entry
Chunks ==
    [whole : {TRUE}, subject : Subjects, body : Bodies]
        \cup {[whole |-> FALSE, subject |-> <<>>, body |-> <<>>]}

\* the abbreviated and the full hash of the n-th log entry
ShortSha(n) == <<"h", n>>

FullSha(n) == <<"H", n>>

\* ------------------------------------------------------------------------
\* main(): --mode pr runs get_commits_pr then group_commits, --mode release
\* runs get_commit_squash then group_commits
\* ------------------------------------------------------------------------
Init ==
    /\ mode \in {"pr", "release"}
    /\ pc = mode
    /\ body = <<>>
    /\ raw = <<>>
    /\ commits = <<>>
    /\ current = None
    /\ grouped = <<>>
    /\ k = 1
    /\ out = <<>>
    /\ VersionIdle
    /\ SecurityIdle
    /\ PytestIdle

\* get_commits_pr, one pass of the loop over the chunks
PrChunk ==
    /\ pc = "pr"
    /\ Len(raw) < MaxChunks
    /\ \E chunk \in Chunks :
         LET subject == Strip(chunk.subject)
         IN  /\ raw' = Append(raw, chunk)
             /\ commits' =
                  IF ~chunk.whole \/ IsWip(subject) THEN commits
                  ELSE Append(commits,
                              [sha |-> ShortSha(Len(raw) + 1),
                               sha_full |-> FullSha(Len(raw) + 1),
                               subject |-> subject,
                               body |-> Strip(chunk.body)])
    /\ UNCHANGED <<mode, pc, body, current, grouped, k, out>>
    /\ UNCHANGED otherThanChangelog

\* get_commits_pr returns
PrReturn ==
    /\ pc = "pr"
    /\ pc' = "call"
    /\ UNCHANGED <<mode, body, raw, commits, current, grouped, k, out>>
    /\ UNCHANGED otherThanChangelog

\* what one pass of the loop of get_commit_squash makes of commits and
\* current, given the line as splitlines() yields it
ScanLine(cs, cur, rawLine) ==
    LET line == Strip(rawLine)
    IN  IF line = <<>> \/ IsWip(line)
        THEN <<cs, cur>>
        ELSE IF StartsRecord(line)
        THEN <<IF cur # None THEN Append(cs, cur[1]) ELSE cs,
               <<[subject |-> Cleaned(line), body |-> <<>>]>> >>
        ELSE IF cur # None
        THEN <<cs, <<[cur[1] EXCEPT !.body = JoinBody(@, Detail(line))]>> >>
        ELSE <<cs, cur>>

\* get_commit_squash, one pass of the loop over the lines of the body
SquashLine ==
    /\ pc = "release"
    /\ Len(body) < MaxLines
    /\ \E rawLine \in Lines :
         LET scanned == ScanLine(commits, current, rawLine)
         IN  /\ body' = Append(body, rawLine)
             /\ commits' = scanned[1]
             /\ current' = scanned[2]
    /\ UNCHANGED <<mode, pc, raw, grouped, k, out>>
    /\ UNCHANGED otherThanChangelog

\* the record in progress is forgotten at the end of the body
FlushNothing(cs, cur) == cs

\* what get_commit_squash returns as "commits": after the loop the record in
\* progress is appended
Flush(cs, cur) == IF cur # None THEN Append(cs, cur[1]) ELSE cs

\* get_commit_squash returns
SquashReturn ==
    /\ pc = "release"
    /\ commits' = Flush(commits, current)
    /\ current' = None
    /\ pc' = "call"
    /\ UNCHANGED <<mode, body, raw, grouped, k, out>>
    /\ UNCHANGED otherThanChangelog

\* grouped outlives the call: a module-level dict that is never emptied
GroupEnterKeeping ==
    /\ pc = "call"
    /\ grouped' = grouped
    /\ k' = 1
    /\ pc' = "group"
    /\ UNCHANGED <<mode, body, raw, commits, current, out>>
    /\ UNCHANGED otherThanChangelog

\* group_commits is entered: grouped is a new, empty defaultdict
GroupEnter ==
    /\ pc = "call"
    /\ grouped' = <<>>
    /\ k' = 1
    /\ pc' = "group"
    /\ UNCHANGED <<mode, body, raw, commits, current, out>>
    /\ UNCHANGED otherThanChangelog

\* group_commits, one pass of the loop over the commits
GroupCommit ==
    /\ pc = "group"
    /\ k <= Len(commits)
    /\ LET commit == commits[k]
       IN  grouped' = AppendEntry(grouped, CommitType(commit.subject),
                                  Scope(commit.subject), Entry(commit))
    /\ k' = k + 1
    /\ UNCHANGED <<mode, pc, body, raw, commits, current, out>>
    /\ UNCHANGED otherThanChangelog

\* group_commits returns grouped; the grouping is then computed once more
\* from the same commits
GroupReturn ==
    /\ pc = "group"
    /\ k > Len(commits)
    /\ out' = Append(out, grouped)
    /\ pc' = IF out = <<>> THEN "call" ELSE "done"
    /\ UNCHANGED <<mode, body, raw, commits, current, grouped, k>>
    /\ UNCHANGED otherThanChangelog

Next ==
    \/ PrChunk
    \/ PrReturn
    \/ SquashLine
    \/ SquashReturn
    \/ GroupEnter
    \/ GroupCommit
    \/ GroupReturn

Spec == Init /\ [][Next]_vars

\* ------------------------------------------------------------------------
\* Vocabulary of the properties
\* ------------------------------------------------------------------------
\* the commits group_commits has classified so far in its current call
Processed == IF pc = "group" THEN k - 1 ELSE IF out # <<>> THEN Len(commits) ELSE 0

\* the entries of bucket (commit_type, scope) of grouping g
Bucket(g, commit_type, scope) == ValueOf(ValueOf(g, commit_type), scope)

\* where the entries of grouping g are: <<type index, scope index, place>>
Positions(g) ==
    {pos \in (1..Len(commits)) \X (1..Len(commits)) \X (1..Len(commits)) :
        /\ pos[1] <= Len(g)
        /\ pos[2] <= Len(g[pos[1]].val)
        /\ pos[3] <= Len(g[pos[1]].val[pos[2]].val)}

EntryAt(g, pos) == g[pos[1]].val[pos[2]].val[pos[3]]

\* t occurs in s as a run of consecutive characters
IsInfix(t, s) ==
    \E a \in 0..(Len(s) - Len(t)) : SubSeq(s, a + 1, a + Len(t)) = t

\* entry e carries the body and hashes of commit c, and a title taken from
\* c's subject
FromCommit(e, c) ==
    /\ e.body = c.body
    /\ e.sha = Get(c, "sha")
    /\ e.sha_full = Get(c, "sha_full")
    /\ IsInfix(e.title, c.subject)

\* The header grammar, stated as the ways to cut a text into
\* type [ "(" scope ")" ] ":" rest: <<a, c>> where the type is the first a
\* characters (word characters, at least one) and the colon is character c;
\* the scope has no ")" and at least minScope characters.
Splits(text, minScope) ==
    LET types == {a \in 1..Len(text) : \A n \in 1..a : text[n] \in WordChars}
        colons == {c \in 1..Len(text) : text[c] = ":"}
    IN  {sp \in types \X colons :
            LET a == sp[1]
                c == sp[2]
            IN  \/ c = a + 1
                \/ /\ c >= a + 3 + minScope
                   /\ text[a + 1] = "("
                   /\ text[c - 1] = ")"
                   /\ \A n \in (a + 2)..(c - 2) : text[n] # ")"}

\* the cuts of a subject that is type(scope): description or
\* type: description, the scope of one character or more and the description
\* not empty once trimmed
HeaderSplits(subject) ==
    {sp \in Splits(subject, 1) :
        \E n \in (sp[2] + 1)..Len(subject) : subject[n] \notin SpaceChars}

SplitType(subject, sp) == SubSeq(subject, 1, sp[1])

SplitScope(subject, sp) ==
    IF sp[2] = sp[1] + 1 THEN NoScope ELSE SubSeq(subject, sp[1] + 2, sp[2] - 2)

SplitTitle(subject, sp) == Strip(Drop(subject, sp[2]))

\* the bucket the grammar prescribes for a subject
GrammarBucket(subject) ==
    LET splits == HeaderSplits(subject)
        sp == CHOOSE x \in splits : TRUE
    IN  IF splits = {} THEN <<Other, NoScope>>
        ELSE <<SplitType(subject, sp), SplitScope(subject, sp)>>

\* the n-th smallest member of a set of numbers
Nth(set, n) == CHOOSE j \in set : Cardinality({x \in set : x < j}) = n - 1

\* ------------------------------------------------------------------------
\* C1: group_commits raises no error (every record it is given has the
\* "subject" key it reads) and places each record in exactly one bucket: the
\* entries over all buckets are as many as the records classified, every
\* entry comes from a record and every record has an entry.
\* ------------------------------------------------------------------------
C1_EachRecordInOneBucket ==
    LET places == Positions(grouped)
    IN  /\ \A j \in 1..Len(commits) :
             {"subject", "body"} \subseteq DOMAIN commits[j]
        /\ Cardinality(places) = Processed
        /\ \A pos \in places :
             \E j \in 1..Processed :
                FromCommit(EntryAt(grouped, pos), commits[j])
        /\ \A j \in 1..Processed :
             \E pos \in places : FromCommit(EntryAt(grouped, pos), commits[j])
        /\ mode = "pr" =>
             \A j \in 1..Processed :
                Cardinality({pos \in places :
                               EntryAt(grouped, pos).sha = commits[j].sha}) = 1

\* three records grouped, two of them into the same bucket
C1_Witness ==
    /\ pc = "done"
    /\ Len(commits) = 3
    /\ Len(grouped) = 2
    /\ \E pos \in Positions(grouped) : pos[3] = 2

\* ------------------------------------------------------------------------
\* C2: each classified record has its entry in the bucket the header grammar
\* prescribes: (type, scope) or (type, "(no scope)") with the trimmed
\* description as title when the subject is a header, ("other",
\* "(no scope)") with the trimmed subject as title otherwise.
\* ------------------------------------------------------------------------
C2_ClassifiedByGrammar ==
    \A j \in 1..Processed :
        LET subject == commits[j].subject
            splits == HeaderSplits(subject)
            others == Bucket(grouped, Other, NoScope)
        IN  IF splits # {}
            THEN \A sp \in splits :
                   LET entries == Bucket(grouped, SplitType(subject, sp),
                                         SplitScope(subject, sp))
                   IN  \E n \in 1..Len(entries) :
                          /\ entries[n].title = SplitTitle(subject, sp)
                          /\ entries[n].scope = SplitScope(subject, sp)
                          /\ FromCommit(entries[n], commits[j])
            ELSE \E n \in 1..Len(others) :
                   /\ others[n].title = Strip(subject)
                   /\ others[n].scope = NoScope
                   /\ FromCommit(others[n], commits[j])

\* a scoped header, a header without scope and a subject that is no header
\* have all been classified
C2_Witness ==
    /\ pc = "done"
    /\ \E j \in 1..Len(commits) :
         \E sp \in HeaderSplits(commits[j].subject) : sp[2] > sp[1] + 1
    /\ \E j \in 1..Len(commits) :
         \E sp \in HeaderSplits(commits[j].subject) : sp[2] = sp[1] + 1
    /\ \E j \in 1..Len(commits) :
         /\ HeaderSplits(commits[j].subject) = {}
         /\ commits[j].subject # <<>>

\* ------------------------------------------------------------------------
\* C3: the entries of every bucket are in the order of the commits they came
\* from: the p-th entry of a bucket comes from the p-th of the classified
\* commits that belong to that bucket.
\* ------------------------------------------------------------------------
C3_BucketKeepsInputOrder ==
    LET bucketOf == [j \in 1..Processed |-> GrammarBucket(commits[j].subject)]
    IN  \A ti \in 1..Len(grouped) :
          \A si \in 1..Len(grouped[ti].val) :
            LET entries == grouped[ti].val[si].val
                members == {j \in 1..Processed :
                              bucketOf[j] = <<grouped[ti].key,
                                              grouped[ti].val[si].key>>}
            IN  /\ Len(entries) = Cardinality(members)
                /\ \A p \in 1..Len(entries) :
                     FromCommit(entries[p], commits[Nth(members, p)])

\* a bucket holds two entries that differ, with a commit of another bucket
\* between the two commits they came from
C3_Witness ==
    /\ pc = "done"
    /\ Len(commits) = 3
    /\ GrammarBucket(commits[1].subject) = GrammarBucket(commits[3].subject)
    /\ GrammarBucket(commits[1].subject) # GrammarBucket(commits[2].subject)
    /\ Entry(commits[1]) # Entry(commits[3])

\* ------------------------------------------------------------------------
\* Vocabulary of the segmenter's properties
\* ------------------------------------------------------------------------
\* the records the segmenter has made so far, the one in progress last
Emitted == IF pc = "release" THEN commits \o current ELSE commits

\* the lines of a text: what lies between its newlines
RECURSIVE TextLines(_)
TextLines(text) ==
    LET breaks == {n \in 1..Len(text) : text[n] = NL}
        first == CHOOSE n \in breaks : \A m \in breaks : n <= m
    IN  IF breaks = {} THEN <<text>>
        ELSE <<SubSeq(text, 1, first - 1)>> \o TextLines(Drop(text, first))

\* a trimmed line that begins a record: not blank, not a wip line, and
\* starred or beginning with type: or type(scope): (any scope without ")")
IsMarker(line) ==
    /\ line # <<>>
    /\ ~IsWip(line)
    /\ \/ line[1] = "*"
       \/ Splits(line, 0) # {}

\* a trimmed line that is text for the body of the record in progress
IsContinuation(line) ==
    /\ line # <<>>
    /\ line[1] # "*"
    /\ Splits(line, 0) = {}

\* the lines read so far, trimmed
Trimmed == [n \in 1..Len(body) |-> Strip(body[n])]

\* where the marker lines are in the lines read so far
MarkerIdx == {n \in 1..Len(body) : IsMarker(Strip(body[n]))}

\* how many characters of set cs a text begins with
Leading(text, cs) ==
    Cardinality({n \in 1..Len(text) : \A m \in 1..n : text[m] \in cs})

\* a marker line without its leading stars and the whitespace after them
Unstarred(line) ==
    LET rest == Drop(line, Leading(line, {"*"}))
    IN  IF line[1] = "*" THEN Drop(rest, Leading(rest, SpaceChars)) ELSE line

\* the segmenter is scanning, or has just returned
Scanned == mode = "release" /\ (pc = "release" \/ (pc = "call" /\ out = <<>>))

\* ------------------------------------------------------------------------
\* C4: no text that starts, in any case, with "wip:" is in the output: no
\* wip line of the squash body is a record's subject or a line of a record's
\* body, no record of the segmenter has such a subject, and no commit with
\* such a subject is classified by the grouper.
\* ------------------------------------------------------------------------
C4_NoWipInOutput ==
    /\ \A n \in 1..Len(body) :
         IsWip(Strip(body[n])) =>
            \A r \in 1..Len(commits) :
               /\ commits[r].subject # Strip(body[n])
               /\ \A m \in 1..Len(TextLines(commits[r].body)) :
                    TextLines(commits[r].body)[m] # Strip(body[n])
    /\ \A r \in 1..Len(commits) : ~IsWip(commits[r].subject)
    /\ \A j \in 1..Processed : ~IsWip(commits[j].subject)

\* ------------------------------------------------------------------------
\* C5: the segmenter makes one record per marker line, in their order, the
\* k-th with the k-th marker line, unstarred, as its subject; the record in
\* progress is appended when the next marker comes and once at the end, so
\* while scanning all records but the last are in the output, and after the
\* scan all are and none is in progress; no marker line, no record.
\* ------------------------------------------------------------------------
C5_OneRecordPerMarker ==
    Scanned =>
        LET markers == MarkerIdx
            lines == Trimmed
        IN  /\ Len(Emitted) = Cardinality(markers)
            /\ \A r \in 1..Len(Emitted) :
                 Emitted[r].subject = Unstarred(lines[Nth(markers, r)])
            /\ Len(current) = IF pc = "release" /\ markers # {} THEN 1 ELSE 0

\* the scan has ended on a body of two marker lines with a detail line
\* between them
C5_Witness ==
    /\ Scanned
    /\ pc = "call"
    /\ Len(body) = 3
    /\ MarkerIdx = {1, 3}
    /\ Len(commits) = 2
    /\ commits[1].body # <<>>

\* ------------------------------------------------------------------------
\* C6: the body of a record is made of the continuation lines between its
\* marker line and the next one (or the end), in order: a line that begins
\* with "-" without the dash and the whitespace after it, any other line as
\* it is; a text is joined with a newline unless the body is still empty, so
\* the body is the texts from the first non-empty one on, newline-separated.
\* Lines before the first marker are in no record.
\* ------------------------------------------------------------------------
C6_BodyIsTheContinuationLines ==
    Scanned =>
      LET markers == MarkerIdx
          lines == Trimmed
          texts == [n \in 1..Len(body) |->
                       IF lines[n] # <<>> /\ lines[n][1] = "-"
                       THEN LStrip(Tail(lines[n])) ELSE lines[n]]
          continuations == {n \in 1..Len(body) : IsContinuation(lines[n])}
      IN  \A r \in 1..Len(Emitted) :
            r <= Cardinality(markers) =>
              LET first == Nth(markers, r)
                  last == IF r < Cardinality(markers)
                          THEN Nth(markers, r + 1) ELSE Len(body) + 1
                  between == continuations \cap ((first + 1)..(last - 1))
                  kept == {n \in between :
                              \E m \in between : m <= n /\ texts[m] # <<>>}
                  made == TextLines(Emitted[r].body)
              IN  IF kept = {} THEN Emitted[r].body = <<>>
                  ELSE /\ Len(made) = Cardinality(kept)
                       /\ \A q \in 1..Len(made) : made[q] = texts[Nth(kept, q)]

\* a record's body is two texts joined by a newline, one from a dash line
\* and one from a plain line
C6_Witness ==
    /\ Scanned
    /\ pc = "call"
    /\ Len(body) = 3
    /\ Len(commits) = 1
    /\ Len(TextLines(commits[1].body)) = 2
    /\ \E n \in 2..3 : Strip(body[n])[1] = "-" /\ Len(Strip(body[n])) > 1
    /\ \E n \in 2..3 : Strip(body[n])[1] # "-"

\* ------------------------------------------------------------------------
\* Vocabulary of the line-by-line properties: a step that reads a line
\* ------------------------------------------------------------------------
\* the line the step has read, trimmed
LineRead == Strip(body'[Len(body')])

\* the step reads a line that is not blank and does not begin with "*"
ReadsUnstarredLine ==
    /\ body' # body
    /\ LineRead # <<>>
    /\ LineRead[1] # "*"

\* the step begins a record: there is one more record, finished or in progress
BeginsRecord == Len(commits') + Len(current') = Len(commits) + Len(current) + 1

\* the step leaves the number of records as it is
BeginsNoRecord ==
    /\ commits' = commits
    /\ Len(current') = Len(current)

\* the cuts of a line that is type(scope): description or type: description
\* with a space after the colon, the scope being anything without ")"
ColonSpaceSplits(line) ==
    {sp \in Splits(line, 0) : Len(line) > sp[2] /\ line[sp[2] + 1] = " "}

\* ------------------------------------------------------------------------
\* C7 as stated: a line that is not blank and does not begin with "*" begins
\* a record exactly when it is type(scope): description or
\* type: description, colon and space between header and description; any
\* other such line begins none.
\* ------------------------------------------------------------------------
C7_HeaderNeedsColonSpace ==
    [][ReadsUnstarredLine =>
          /\ BeginsRecord <=> ColonSpaceSplits(LineRead) # {}
          /\ ~BeginsRecord => BeginsNoRecord]_vars

\* ------------------------------------------------------------------------
\* C7 amended: a line that is not blank and does not begin with "*" begins a
\* record exactly when it is no wip line and begins with type: or
\* type(scope): (the scope anything without ")", possibly nothing), whatever
\* follows the colon; any other such line begins none.
\* ------------------------------------------------------------------------
C7_HeaderPrefixBeginsRecord ==
    [][ReadsUnstarredLine =>
          /\ BeginsRecord <=> (~IsWip(LineRead) /\ Splits(LineRead, 0) # {})
          /\ ~BeginsRecord => BeginsNoRecord]_vars

\* the last line read is a header with no space after its colon, and it
\* began the record in progress
C7_Witness ==
    /\ pc = "release"
    /\ body # <<>>
    /\ LET line == Strip(body[Len(body)])
       IN  /\ line # <<>>
           /\ line[1] # "*"
           /\ ~IsWip(line)
           /\ Splits(line, 0) # {}
           /\ ColonSpaceSplits(line) = {}
           /\ Len(line) > 2
           /\ current = <<[subject |-> line, body |-> <<>>]>>

\* ------------------------------------------------------------------------
\* C8: every record the segmenter makes has a subject that is not empty
\* once trimmed, and is one line.
\* ------------------------------------------------------------------------
C8_SubjectNotEmpty ==
    mode = "release" =>
        \A r \in 1..Len(commits) :
            /\ Strip(commits[r].subject) # <<>>
            /\ \A n \in 1..Len(commits[r].subject) : commits[r].subject[n] # NL

\* ------------------------------------------------------------------------
\* C9 as stated: the segmenter's records, grouped, give one entry per
\* record, and the record begun by a header line type(scope): ... or
\* type: ... (the segmenter's header: any scope without ")") is in bucket
\* (type, scope), respectively (type, "(no scope)").
\* ------------------------------------------------------------------------
C9_HeaderLineInItsBucket ==
    (mode = "release" /\ pc = "done") =>
        LET markers == MarkerIdx
            lines == Trimmed
        IN  /\ Cardinality(Positions(grouped)) = Len(commits)
            /\ \A r \in 1..Len(commits) :
                 LET line == lines[Nth(markers, r)]
                 IN  \A sp \in ColonSpaceSplits(line) :
                        LET scope == IF sp[2] = sp[1] + 1 THEN NoScope
                                     ELSE SubSeq(line, sp[1] + 2, sp[2] - 2)
                            entries == Bucket(grouped, SplitType(line, sp), scope)
                        IN  \E n \in 1..Len(entries) :
                               FromCommit(entries[n], commits[r])

\* ------------------------------------------------------------------------
\* C9 amended: the segmenter's records, grouped, give one entry per record,
\* and the record begun by a marker line that, unstarred, is
\* type(scope): description or type: description with a scope of one
\* character or more and a description that is not empty, is in bucket
\* (type, scope), respectively (type, "(no scope)"), under its description.
\* ------------------------------------------------------------------------
C9_FullHeaderInItsBucket ==
    (mode = "release" /\ pc = "done") =>
        LET markers == MarkerIdx
            lines == Trimmed
        IN  /\ Cardinality(Positions(grouped)) = Len(commits)
            /\ Len(commits) = Cardinality(markers)
            /\ \A r \in 1..Len(commits) :
                 LET header == Unstarred(lines[Nth(markers, r)])
                 IN  \A sp \in HeaderSplits(header) :
                        LET entries == Bucket(grouped, SplitType(header, sp),
                                              SplitScope(header, sp))
                        IN  \E n \in 1..Len(entries) :
                               /\ entries[n].title = SplitTitle(header, sp)
                               /\ entries[n].body = commits[r].body

\* a body of one scoped header and one plain header, each with a
\* description, has given two buckets of one entry each
C9_Witness ==
    /\ mode = "release"
    /\ pc = "done"
    /\ Len(commits) = 2
    /\ \E sp \in HeaderSplits(commits[1].subject) : sp[2] > sp[1] + 1
    /\ \E sp \in HeaderSplits(commits[2].subject) : sp[2] = sp[1] + 1
    /\ \A r \in 1..2 : \E n \in 1..Len(body) : Strip(body[n]) = commits[r].subject
    /\ Len(grouped) = 2
    /\ \A ti \in 1..2 :
         /\ Len(grouped[ti].val) = 1
         /\ Len(grouped[ti].val[1].val) = 1

\* ------------------------------------------------------------------------
\* C10: group_commits run twice on the same commits returns the same
\* grouping, keys and entries in the same order, and each call starts from
\* an empty grouping: nothing is carried from one call to the next.
\* ------------------------------------------------------------------------
C10_SameGroupingTwice ==
    /\ (pc = "group" /\ k = 1) => grouped = <<>>
    /\ pc = "done" => (Len(out) = 2 /\ out[1] = out[2])

\* two calls have returned a grouping of three commits under two types
C10_Witness ==
    /\ pc = "done"
    /\ Len(out) = 2
    /\ Len(commits) = 3
    /\ Len(out[2]) = 2

\* the keys of a dict, in the dict's order
KeysOf(d) == [n \in 1..Len(d) |-> d[n].key]

\* the values of a sequence in the order of their first occurrence
FirstSeen(seq) ==
    LET firsts == {j \in 1..Len(seq) : \A i \in 1..(j - 1) : seq[i] # seq[j]}
    IN  [n \in 1..Cardinality(firsts) |-> seq[Nth(firsts, n)]]

\* the types of the commits classified so far, in input order
TypesRead == [j \in 1..Processed |-> CommitType(commits[j].subject)]

\* the scopes of the commits of one type classified so far, in input order
ScopesRead(commit_type) ==
    LET idx == {j \in 1..Processed : TypesRead[j] = commit_type}
    IN  [n \in 1..Cardinality(idx) |-> Scope(commits[Nth(idx, n)].subject)]

\* ------------------------------------------------------------------------
\* C13: in the grouping, the type keys stand in the order in which each type
\* was first seen among the commits classified, under each type the scope
\* keys stand in the order in which each scope was first seen for that type,
\* and no key is there without an entry: no type without a scope, no scope
\* with an empty list.
\* ------------------------------------------------------------------------
C13_KeysInFirstSeenOrder ==
    /\ KeysOf(grouped) = FirstSeen(TypesRead)
    /\ \A ti \in 1..Len(grouped) :
         /\ grouped[ti].val # <<>>
         /\ KeysOf(grouped[ti].val) = FirstSeen(ScopesRead(grouped[ti].key))
         /\ \A si \in 1..Len(grouped[ti].val) : grouped[ti].val[si].val # <<>>

\* group_commits has returned three commits under two types, the second
\* type first seen at the second commit, and one type holds two scopes
C13_Witness ==
    /\ pc = "done"
    /\ Len(commits) = 3
    /\ Len(grouped) = 2
    /\ \E ti \in 1..2 : Len(grouped[ti].val) = 2
    /\ TypesRead[1] # TypesRead[2]

\* ========================================================================
\* str.lower() over the letters, as the version tool and the reporters need
\* ========================================================================
Uppercase ==
    <<"A", "B", "C", "D", "E", "F", "G", "H", "I", "J", "K", "L", "M",
      "N", "O", "P", "Q", "R", "S", "T", "U", "V", "W", "X", "Y", "Z">>

Lowercase ==
    <<"a", "b", "c", "d", "e", "f", "g", "h", "i", "j", "k", "l", "m",
      "n", "o", "p", "q", "r", "s", "t", "u", "v", "w", "x", "y", "z">>

\* str.lower()
lower(s) ==
    [n \in 1..Len(s) |->
        IF \E u \in DOMAIN Uppercase : Uppercase[u] = s[n]
        THEN Lowercase[CHOOSE u \in DOMAIN Uppercase : Uppercase[u] = s[n]]
        ELSE s[n]]

\* ========================================================================
\* Version tool (actions/devops/versioning-branch-semantic/src/cli.py)
\* ========================================================================
VERSION_UNRELEASED == <<"U", "N", "R", "E", "L", "E", "A", "S", "E", "D">>

Digits == <<"0", "1", "2", "3", "4", "5", "6", "7", "8", "9">>

IsDigit(c) == \E d \in DOMAIN Digits : Digits[d] = c

DigitVal(c) == (CHOOSE d \in DOMAIN Digits : Digits[d] = c) - 1

\* int(text) succeeds: over the characters of the model's versions (digits,
\* ".", letters) that is a non-empty run of digits
IsInt(text) == text # <<>> /\ \A n \in 1..Len(text) : IsDigit(text[n])

\* int(text)
RECURSIVE IntOf(_)
IntOf(text) ==
    IF text = <<>> THEN 0
    ELSE 10 * IntOf(SubSeq(text, 1, Len(text) - 1)) + DigitVal(text[Len(text)])

\* str(n) of a number that is not negative
RECURSIVE StrOf(_)
StrOf(n) ==
    IF n < 10 THEN <<Digits[n + 1]>>
    ELSE StrOf(n \div 10) \o <<Digits[(n % 10) + 1]>>

\* text.split(sep), sep one character
Split(text, sep) ==
    LET seps == {n \in 1..Len(text) : text[n] = sep}
    IN  [j \in 1..(Cardinality(seps) + 1) |->
            SubSeq(text,
                   Nth(seps \cup {0}, j) + 1,
                   Nth(seps \cup {Len(text) + 1}, j) - 1)]

\* one pattern character against one character of the branch
CharMatches(p, c) == p = "." \/ p = c

\* re.fullmatch(pattern, text) for patterns made of literal characters, "."
\* and "*" after a character
RECURSIVE fullmatch(_, _)
fullmatch(pattern, text) ==
    IF pattern = <<>> THEN text = <<>>
    ELSE IF Len(pattern) >= 2 /\ pattern[2] = "*"
    THEN \E n \in 0..Len(text) :
            /\ \A j \in 1..n : CharMatches(pattern[1], text[j])
            /\ fullmatch(Drop(pattern, 2), Drop(text, n))
    ELSE /\ text # <<>>
         /\ CharMatches(pattern[1], text[1])
         /\ fullmatch(Tail(pattern), Tail(text))

\* cfg.get(key): the list of patterns, None (<<>>) when the key is missing
Patterns(config, key) == IF key \in DOMAIN config THEN config[key] ELSE None

\* matches(branch, patterns)
matches(branch, patterns) ==
    IF patterns = <<>> THEN FALSE
    ELSE \E n \in 1..Len(patterns) : fullmatch(patterns[n], branch)

\* map(int, current.split(".")) unpacks into major, minor, patch without a
\* ValueError
Parses(version) ==
    LET parts == Split(version, ".")
    IN  Len(parts) = 3 /\ \A j \in 1..3 : IsInt(parts[j])

\* major, minor, patch
Components(version) == [j \in 1..3 |-> IntOf(Split(version, ".")[j])]

\* f"{major}.{minor}.{patch}"
Format(v) == StrOf(v[1]) \o <<".">> \o StrOf(v[2]) \o <<".">> \o StrOf(v[3])

\* the branches of bump tried as major, then minor, then patch
bumpMajorFirst(branch, config, version) ==
    LET v == Components(version)
    IN  IF matches(branch, Patterns(config, "major"))
        THEN Format(<<v[1] + 1, 0, 0>>)
        ELSE IF matches(branch, Patterns(config, "minor"))
        THEN Format(<<v[1], v[2] + 1, 0>>)
        ELSE IF matches(branch, Patterns(config, "patch"))
        THEN Format(<<v[1], v[2], v[3] + 1>>)
        ELSE Format(v)

\* bump(branch, cfg, current), for a current that parses
bump(branch, config, version) ==
    LET v == Components(version)
    IN  IF matches(branch, Patterns(config, "minor"))
        THEN Format(<<v[1], v[2] + 1, 0>>)
        ELSE IF matches(branch, Patterns(config, "major"))
        THEN Format(<<v[1] + 1, 0, 0>>)
        ELSE IF matches(branch, Patterns(config, "patch"))
        THEN Format(<<v[1], v[2], v[3] + 1>>)
        ELSE Format(v)

\* the first test of calc_next_version: the branch is on the ignore list of
\* the mode
Ignored(config, branch, prerelease) ==
    \/ prerelease /\ matches(branch, Patterns(config, "prerelease_ignore"))
    \/ ~prerelease /\ matches(branch, Patterns(config, "release_ignore"))

\* Path(path).suffix: the path from its last "." on, when there is one
Suffix(path) ==
    LET dots == {n \in 1..Len(path) : path[n] = "."}
    IN  IF dots = {} THEN <<>>
        ELSE Drop(path, (CHOOSE n \in dots : \A m \in dots : m <= n) - 1)

\* the version main() assumes when pyproject.toml has none
DefaultVersion == <<"0", ".", "1", ".", "0">>

\* ------------------------------------------------------------------------
\* Inputs of the version tool
\* ------------------------------------------------------------------------
\* --branch
Branches == {<<"f">>, <<"f", "x">>, <<"h">>, <<"d">>}

\* --prerelease
PrereleaseArgs == {<<"t", "r", "u", "e">>, <<"T", "r", "u", "e">>, <<"f", "a", "l", "s", "e">>}

\* --config: the file that holds the rules and the version
ConfigPaths == {<<"p", ".", "t", "o", "m", "l">>, <<"p", ".", "c", "f", "g">>}

\* the [tool.semantic_branch] section: rule name -> list of patterns; a rule
\* may be missing, and so may the whole section
Configs ==
    {[major |-> <<<<"f", "x">>>>,
      minor |-> <<<<"f", ".", "*">>>>,
      patch |-> <<<<"h">>, <<".", "*">>>>,
      prerelease |-> <<<<"f", ".", "*">>>>,
      prerelease_ignore |-> <<<<"d">>>>,
      release_ignore |-> <<<<"d">>, <<"h", ".", "*">>>>],
     [major |-> <<<<".", "*">>>>,
      patch |-> <<<<"h">>>>,
      prerelease |-> <<<<"h", ".", "*">>, <<"d">>>>,
      release_ignore |-> <<>>],
     [minor |-> <<<<"h">>>>,
      patch |-> <<<<"f">>>>,
      prerelease |-> <<<<".", "*">>>>,
      prerelease_ignore |-> <<<<"f">>>>],
     <<>>}

\* [project] version of the config file as the first run finds it: missing,
\* or three integers
ProjectVersions ==
    {None, <<<<"0", "1", ".", "9", ".", "9">>>>, <<<<"1", ".", "2", ".", "3">>>>}

\* what git rev-list --count HEAD prints
CountOutputs == {<<"7", NL>>, <<"1", "2", NL>>}

\* ------------------------------------------------------------------------
\* main() of the version tool, run again and again on the same config file
\* ------------------------------------------------------------------------
ChangelogIdle ==
    /\ mode = "off"
    /\ pc = "off"
    /\ body = <<>>
    /\ raw = <<>>
    /\ commits = <<>>
    /\ current = None
    /\ grouped = <<>>
    /\ k = 1
    /\ out = <<>>

otherThanVersion == <<changelogVars, securityVars, pytestVars>>

VersionInit ==
    /\ ChangelogIdle
    /\ SecurityIdle
    /\ PytestIdle
    /\ cfg \in Configs
    /\ pyproject \in [path : ConfigPaths, version : ProjectVersions]
    /\ args = None
    /\ current_version = None
    /\ next_version = None
    /\ result = None
    /\ vpc = "main"
    /\ runs = 0

\* args.branch
Branch == args[1].branch

\* prerelease = args.prerelease.lower() == "true"
Prerelease == lower(args[1].prerelease) = <<"t", "r", "u", "e">>

\* main() up to the call of calc_next_version
MainStart ==
    /\ vpc = "main"
    /\ runs < MaxRuns
    /\ \E branch \in Branches, pre \in PrereleaseArgs :
         args' = <<[branch |-> branch, prerelease |-> pre,
                    config |-> pyproject.path]>>
    /\ current_version' =
         IF pyproject.version = None THEN DefaultVersion
         ELSE pyproject.version[1]
    /\ next_version' = None
    /\ result' = None
    /\ runs' = runs + 1
    /\ vpc' = "calc"
    /\ UNCHANGED <<cfg, pyproject>>
    /\ UNCHANGED otherThanVersion

\* calc_next_version: the branch is ignored
CalcUnreleased ==
    /\ vpc = "calc"
    /\ Ignored(cfg, Branch, Prerelease)
    /\ result' = <<[version |-> VERSION_UNRELEASED, deploy |-> FALSE]>>
    /\ vpc' = "returned"
    /\ UNCHANGED <<cfg, pyproject, args, current_version, next_version, runs>>
    /\ UNCHANGED otherThanVersion

\* calc_next_version calls bump, which raises ValueError on a current version
\* that is not three integers
BumpRaises ==
    /\ vpc = "calc"
    /\ ~Ignored(cfg, Branch, Prerelease)
    /\ ~Parses(current_version)
    /\ vpc' = "raised"
    /\ UNCHANGED <<cfg, pyproject, args, current_version, next_version, result,
                   runs>>
    /\ UNCHANGED otherThanVersion

\* calc_next_version calls bump, which returns
CalcBump ==
    /\ vpc = "calc"
    /\ ~Ignored(cfg, Branch, Prerelease)
    /\ Parses(current_version)
    /\ next_version' = bump(Branch, cfg, current_version)
    /\ vpc' = "bumped"
    /\ UNCHANGED <<cfg, pyproject, args, current_version, result, runs>>
    /\ UNCHANGED otherThanVersion

\* calc_next_version: a prerelease of a prerelease branch
CalcPrerelease ==
    /\ vpc = "bumped"
    /\ Prerelease /\ matches(Branch, Patterns(cfg, "prerelease"))
    /\ \E output \in CountOutputs :
         result' = <<[version |-> next_version \o <<".", "d", "e", "v">> \o Strip(output),
                      deploy |-> TRUE]>>
    /\ vpc' = "returned"
    /\ UNCHANGED <<cfg, pyproject, args, current_version, next_version, runs>>
    /\ UNCHANGED otherThanVersion

\* calc_next_version: a release
CalcRelease ==
    /\ vpc = "bumped"
    /\ ~(Prerelease /\ matches(Branch, Patterns(cfg, "prerelease")))
    /\ ~Prerelease
    /\ result' = <<[version |-> next_version, deploy |-> TRUE]>>
    /\ vpc' = "returned"
    /\ UNCHANGED <<cfg, pyproject, args, current_version, next_version, runs>>
    /\ UNCHANGED otherThanVersion

\* calc_next_version: a prerelease of a branch no prerelease pattern matches
CalcNoRule ==
    /\ vpc = "bumped"
    /\ ~(Prerelease /\ matches(Branch, Patterns(cfg, "prerelease")))
    /\ Prerelease
    /\ vpc' = "raised"
    /\ UNCHANGED <<cfg, pyproject, args, current_version, next_version, result,
                   runs>>
    /\ UNCHANGED otherThanVersion

\* main() after calc_next_version returned: the version is written to the
\* config file when it is to be deployed and the file is a .toml, then printed
MainWrite ==
    /\ vpc = "returned"
    /\ pyproject' =
         IF result[1].deploy /\ Suffix(args[1].config) = <<".", "t", "o", "m", "l">>
         THEN [pyproject EXCEPT !.version = <<result[1].version>>]
         ELSE pyproject
    /\ vpc' = "main"
    /\ UNCHANGED <<cfg, args, current_version, next_version, result, runs>>
    /\ UNCHANGED otherThanVersion

\* main() after an exception: sys.exit with the message, nothing is written
MainExit ==
    /\ vpc = "raised"
    /\ vpc' = "main"
    /\ UNCHANGED <<cfg, pyproject, args, current_version, next_version, result,
                   runs>>
    /\ UNCHANGED otherThanVersion

VersionNext ==
    \/ MainStart
    \/ CalcUnreleased
    \/ BumpRaises
    \/ CalcBump
    \/ CalcPrerelease
    \/ CalcRelease
    \/ CalcNoRule
    \/ MainWrite
    \/ MainExit

VersionSpec == VersionInit /\ [][VersionNext]_vars

\* ------------------------------------------------------------------------
\* Vocabulary of the properties of the version tool
\* ------------------------------------------------------------------------
\* the branch of the run fully matches a pattern of the rule
RuleMatches(rule) == matches(Branch, Patterns(cfg, rule))

\* bump has returned in this run
Bumped == vpc \in {"bumped", "returned", "raised"} /\ next_version # None

\* calc_next_version has returned or raised in this run
Settled == vpc \in {"returned", "raised"}

\* ------------------------------------------------------------------------
\* C14: bump applies one rule at most, the first that the branch fully
\* matches in the order minor, major, patch: minor gives
\* (major, minor+1, 0) even when a major pattern matches too, else major
\* gives (major+1, 0, 0), else patch gives (major, minor, patch+1), else the
\* components are returned as they were.  At most one component grows, and a
\* component gets smaller only by being set to 0 below the one that grew.
\* ------------------------------------------------------------------------
C14_BumpByPrecedence ==
    Bumped =>
        LET v == Components(current_version)
            w == Components(next_version)
            minor == RuleMatches("minor")
            major == RuleMatches("major")
            patch == RuleMatches("patch")
        IN  /\ Parses(next_version)
            /\ minor => w = <<v[1], v[2] + 1, 0>>
            /\ (~minor /\ major) => w = <<v[1] + 1, 0, 0>>
            /\ (~minor /\ ~major /\ patch) => w = <<v[1], v[2], v[3] + 1>>
            /\ (~minor /\ ~major /\ ~patch) => w = v
            /\ Cardinality({j \in 1..3 : w[j] > v[j]}) <= 1
            /\ \A j \in 1..3 :
                 \/ w[j] >= v[j]
                 \/ w[j] = 0 /\ \E i \in 1..(j - 1) : w[i] = v[i] + 1

\* bump has returned for a branch that matches a minor and a major pattern,
\* on a version whose patch was not 0
C14_Witness ==
    /\ Bumped
    /\ RuleMatches("minor")
    /\ RuleMatches("major")
    /\ Components(current_version)[3] > 0
    /\ Components(next_version)[2] = Components(current_version)[2] + 1

\* ------------------------------------------------------------------------
\* C15: calc_next_version ends in one of three ways, whatever the config,
\* branch, prerelease flag and current version: it returns
\* (UNRELEASED, False) exactly when the branch is on the ignore list of the
\* mode; otherwise it returns the bumped version with deploy True for a
\* release, and the bumped version suffixed .dev<count> with deploy True for
\* a prerelease of a branch that matches a prerelease pattern; otherwise it
\* raises.  So deploy is False exactly when the version is UNRELEASED.
\* ------------------------------------------------------------------------
C15_ThreeOutcomes ==
    Settled =>
        LET ignored == Ignored(cfg, Branch, Prerelease)
            onPrerelease == RuleMatches("prerelease")
        IN  /\ ignored =>
                 /\ vpc = "returned"
                 /\ result[1] = [version |-> VERSION_UNRELEASED, deploy |-> FALSE]
            /\ (~ignored /\ ~Prerelease) =>
                 /\ vpc = "returned"
                 /\ Parses(current_version)
                 /\ result[1] = [version |-> bump(Branch, cfg, current_version),
                                 deploy |-> TRUE]
            /\ (~ignored /\ Prerelease /\ onPrerelease) =>
                 /\ vpc = "returned"
                 /\ Parses(current_version)
                 /\ result[1].deploy
                 /\ \E output \in CountOutputs :
                      result[1].version =
                          bump(Branch, cfg, current_version) \o <<".", "d", "e", "v">>
                              \o Strip(output)
            /\ (~ignored /\ Prerelease /\ ~onPrerelease) => vpc = "raised"
            /\ vpc = "returned" =>
                 (~result[1].deploy <=> result[1].version = VERSION_UNRELEASED)

\* ========================================================================
\* Security reporter (actions/python/security-comment/src/builder.py)
\* ========================================================================
SEVERITY_ORDER ==
    (<<"n", "o", "n", "e">> :> 0) @@ (<<"l", "o", "w">> :> 1)
        @@ (<<"m", "e", "d", "i", "u", "m">> :> 2) @@ (<<"h", "i", "g", "h">> :> 3)

\* SEVERITY_ORDER.get(text, 0)
Rank(text) == IF text \in DOMAIN SEVERITY_ORDER THEN SEVERITY_ORDER[text] ELSE 0

\* a JSON null
JsonNull == <<"null">>

\* str(i.get("issue_severity", "LOW")): the default for a missing key, and
\* str(None) for a null
SeverityOf(entry) ==
    IF "issue_severity" \notin DOMAIN entry THEN <<"L", "O", "W">>
    ELSE IF entry.issue_severity = JsonNull THEN <<"N", "o", "n", "e">>
    ELSE entry.issue_severity

\* the BanditIssue load_bandit builds from one entry of "results"
BanditIssue(entry) == [test_id |-> entry.test_id, severity |-> SeverityOf(entry)]

\* an issue counts only when it is above the threshold
filter_failuresAbove(issue_list, fail_on) ==
    LET threshold == Rank(lower(fail_on))
    IN  IF threshold = 0 THEN FALSE
        ELSE \E n \in 1..Len(issue_list) :
                Rank(lower(issue_list[n].severity)) > threshold

\* filter_failures(issues, fail_on)
filter_failures(issue_list, fail_on) ==
    LET threshold == Rank(lower(fail_on))
    IN  IF threshold = 0 THEN FALSE
        ELSE \E n \in 1..Len(issue_list) :
                Rank(lower(issue_list[n].severity)) >= threshold

\* build_status_message(issues, fail_on): which of its three messages
build_status_message(issue_list, fail_on) ==
    IF Len(issue_list) = 0 THEN "no issues"
    ELSE IF filter_failures(issue_list, fail_on) THEN "blocking"
    ELSE "below threshold"

\* ------------------------------------------------------------------------
\* Inputs of the security reporter
\* ------------------------------------------------------------------------
\* choices of --fail-on
FailOnChoices == {<<"n", "o", "n", "e">>, <<"l", "o", "w">>, <<"m", "e", "d", "i", "u", "m">>, <<"h", "i", "g", "h">>}

\* what may be given as --fail-on
FailOnArgs == FailOnChoices \cup {<<"H", "I", "G", "H">>}

\* an entry of "results" in bandit.json: issue_severity may be missing or null
ResultEntries ==
    {[test_id |-> "B101"]}
        \cup [test_id : {"B101"},
              issue_severity : {<<"L", "O", "W">>, <<"M", "E", "D", "I", "U", "M">>, <<"H", "I", "G", "H">>, <<"H", "i", "g", "h">>, <<"U", "N", "D", "E", "F", "I", "N", "E", "D">>,
                                JsonNull}]

\* ------------------------------------------------------------------------
\* cli() of the security reporter
\* ------------------------------------------------------------------------
otherThanSecurity == <<changelogVars, versionVars, pytestVars>>

SecurityInit ==
    /\ ChangelogIdle
    /\ VersionIdle
    /\ PytestIdle
    /\ bandit_results = <<>>
    /\ issues = <<>>
    /\ sec_args = None
    /\ status_msg = None
    /\ sec_exit = None
    /\ spc = "cli"

\* parser.parse_args() returns
ParseArgs ==
    /\ spc = "cli"
    /\ \E fail_on \in FailOnChoices, check_exit \in BOOLEAN, template \in BOOLEAN :
         sec_args' = <<[fail_on |-> fail_on, check_exit |-> check_exit,
                        template |-> template]>>
    /\ spc' = "load"
    /\ UNCHANGED <<bandit_results, issues, status_msg, sec_exit>>
    /\ UNCHANGED otherThanSecurity

\* parser.parse_args() rejects a --fail-on that is not one of the choices
ParseError ==
    /\ spc = "cli"
    /\ \E fail_on \in FailOnArgs : fail_on \notin FailOnChoices
    /\ sec_exit' = <<2>>
    /\ spc' = "exit"
    /\ UNCHANGED <<bandit_results, issues, sec_args, status_msg>>
    /\ UNCHANGED otherThanSecurity

\* load_bandit, one pass of the loop over "results"
LoadIssue ==
    /\ spc = "load"
    /\ Len(bandit_results) < MaxIssues
    /\ \E entry \in ResultEntries :
         /\ bandit_results' = Append(bandit_results, entry)
         /\ issues' = Append(issues, BanditIssue(entry))
    /\ UNCHANGED <<sec_args, status_msg, sec_exit, spc>>
    /\ UNCHANGED otherThanSecurity

\* load_bandit returns
LoadReturn ==
    /\ spc = "load"
    /\ spc' = "loaded"
    /\ UNCHANGED <<bandit_results, issues, sec_args, status_msg, sec_exit>>
    /\ UNCHANGED otherThanSecurity

\* --check-exit, blocking issues: sys.exit(1)
CheckExitFail ==
    /\ spc = "loaded"
    /\ sec_args[1].check_exit
    /\ filter_failures(issues, sec_args[1].fail_on)
    /\ sec_exit' = <<1>>
    /\ spc' = "exit"
    /\ UNCHANGED <<bandit_results, issues, sec_args, status_msg>>
    /\ UNCHANGED otherThanSecurity

\* --check-exit, no blocking issue: sys.exit(0)
CheckExitPass ==
    /\ spc = "loaded"
    /\ sec_args[1].check_exit
    /\ ~filter_failures(issues, sec_args[1].fail_on)
    /\ sec_exit' = <<0>>
    /\ spc' = "exit"
    /\ UNCHANGED <<bandit_results, issues, sec_args, status_msg>>
    /\ UNCHANGED otherThanSecurity

\* no --check-exit and no --template: parser.error
TemplateMissing ==
    /\ spc = "loaded"
    /\ ~sec_args[1].check_exit
    /\ ~sec_args[1].template
    /\ sec_exit' = <<2>>
    /\ spc' = "exit"
    /\ UNCHANGED <<bandit_results, issues, sec_args, status_msg>>
    /\ UNCHANGED otherThanSecurity

\* the report is rendered with its status message and the outputs are
\* written; cli() returns
Render ==
    /\ spc = "loaded"
    /\ ~sec_args[1].check_exit
    /\ sec_args[1].template
    /\ status_msg' = <<build_status_message(issues, sec_args[1].fail_on)>>
    /\ sec_exit' = <<0>>
    /\ spc' = "exit"
    /\ UNCHANGED <<bandit_results, issues, sec_args>>
    /\ UNCHANGED otherThanSecurity

SecurityNext ==
    \/ ParseArgs
    \/ ParseError
    \/ LoadIssue
    \/ LoadReturn
    \/ CheckExitFail
    \/ CheckExitPass
    \/ TemplateMissing
    \/ Render

SecuritySpec == SecurityInit /\ [][SecurityNext]_vars

\* ------------------------------------------------------------------------
\* Vocabulary of the properties of the security reporter
\* ------------------------------------------------------------------------
\* the severities in their order, lowest first
SeverityLevels == <<<<"l", "o", "w">>, <<"m", "e", "d", "i", "u", "m">>, <<"h", "i", "g", "h">>>>

\* the place of a text in the order whatever its case, 0 when it has none
LevelOf(text) ==
    IF \E a \in DOMAIN SeverityLevels : SeverityLevels[a] = lower(text)
    THEN CHOOSE a \in DOMAIN SeverityLevels : SeverityLevels[a] = lower(text)
    ELSE 0

\* a severity meets or exceeds a threshold: both are in the order and the
\* severity is not below the threshold
MeetsOrExceeds(severity, fail_on) ==
    /\ LevelOf(fail_on) > 0
    /\ LevelOf(severity) >= LevelOf(fail_on)

\* thresholds filter_failures may be given
Thresholds == FailOnArgs \cup {<<"M", "e", "d", "i", "u", "m">>, <<"N", "O", "N", "E">>, <<"c", "r", "i", "t", "i", "c", "a", "l">>}

Round2(x) ==
    LET q == x \div 10
        r == x % 10
    IN  10 * (IF r > 5 \/ (r = 5 /\ q % 2 = 1) THEN q + 1 ELSE q)

\* int(suite.attrib.get(key, 0))
IntAttrib(suite, key) == IF key \in DOMAIN suite THEN IntOf(suite[key]) ELSE 0

\* _parse_suite_stats(suite)
SuiteStats(suite) ==
    [tests |-> IntAttrib(suite, "tests"),
     failures |-> IntAttrib(suite, "failures"),
     errors |-> IntAttrib(suite, "errors"),
     skipped |-> IntAttrib(suite, "skipped")]

\* tests = failures = errors = skipped = 0
NoStats == [tests |-> 0, failures |-> 0, errors |-> 0, skipped |-> 0]

\* one pass of the loop of _parse_test_suites: the four sums
AddStats(sums, suite) ==
    [key \in DOMAIN sums |-> sums[key] + SuiteStats(suite)[key]]

\* failed = test_stats["failures"] + test_stats["errors"]
Failed(sums) == sums.failures + sums.errors

\* what parse_junit returns, but for the list of the failed test cases
JunitData(sums) ==
    LET passed == sums.tests - Failed(sums) - sums.skipped
    IN  [tests |-> sums.tests,
         passed |-> IF passed > 0 THEN passed ELSE 0,
         failed |-> Failed(sums),
         skipped |-> sums.skipped]

\* totals.get("percent_covered", 0.0)
PercentCovered(report) == IF report = None THEN 0 ELSE report[1]

\* the test of check_exit
MustExit(sums, cov, threshold) == JunitData(sums).failed > 0 \/ cov < threshold

\* ------------------------------------------------------------------------
\* Inputs of the pytest reporter
\* ------------------------------------------------------------------------
\* totals.percent_covered of coverage.json: missing, or a percentage
CoverageReports == {None, <<84996>>, <<85000>>, <<85004>>, <<91234>>}

\* --threshold
ThresholdArgs == {85000, 85001}

\* the attributes of a <testsuite>: each count may be missing
SuiteAttribs ==
    {[tests |-> <<"3">>],
     [tests |-> <<"3">>, failures |-> <<"0">>, errors |-> <<"0">>, skipped |-> <<"1">>],
     [tests |-> <<"1", "2">>, failures |-> <<"1">>, skipped |-> <<"0">>],
     [tests |-> <<"2">>, failures |-> <<"0">>, errors |-> <<"2">>],
     [failures |-> <<"1">>, skipped |-> <<"1">>]}

\* ------------------------------------------------------------------------
\* cli() of the pytest reporter
\* ------------------------------------------------------------------------
otherThanPytest == <<changelogVars, versionVars, securityVars>>

PytestInit ==
    /\ ChangelogIdle
    /\ VersionIdle
    /\ SecurityIdle
    /\ cov_report \in CoverageReports
    /\ junit_root \in {"testsuite", "testsuites"}
    /\ junit_suites = <<>>
    /\ py_args = None
    /\ coverage = None
    /\ test_stats = None
    /\ outputs = None
    /\ py_exit = None
    /\ ppc = "cli"

\* parse_args: --check-exit, or both --output and --outputs, is given
PytestParseArgs ==
    /\ ppc = "cli"
    /\ \E threshold \in ThresholdArgs, check_exit \in BOOLEAN, output \in BOOLEAN :
         /\ check_exit \/ output
         /\ py_args' = <<[threshold |-> threshold, check_exit |-> check_exit,
                          output |-> output]>>
    /\ ppc' = "coverage"
    /\ UNCHANGED <<cov_report, junit_root, junit_suites, coverage, test_stats,
                   outputs, py_exit>>
    /\ UNCHANGED otherThanPytest

\* neither --check-exit nor --output and --outputs: parser.error
OutputMissing ==
    /\ ppc = "cli"
    /\ \E threshold \in ThresholdArgs :
         py_args' = <<[threshold |-> threshold, check_exit |-> FALSE,
                       output |-> FALSE]>>
    /\ py_exit' = <<2>>
    /\ ppc' = "exit"
    /\ UNCHANGED <<cov_report, junit_root, junit_suites, coverage, test_stats,
                   outputs>>
    /\ UNCHANGED otherThanPytest

\* parse_coverage_json returns the rounded global coverage; parse_junit is
\* entered and its sums start at 0
ParseCoverage ==
    /\ ppc = "coverage"
    /\ coverage' = <<Round2(PercentCovered(cov_report))>>
    /\ test_stats' = <<NoStats>>
    /\ ppc' = "junit"
    /\ UNCHANGED <<cov_report, junit_root, junit_suites, py_args, outputs,
                   py_exit>>
    /\ UNCHANGED otherThanPytest

\* _parse_test_suites, one pass of the loop: the root itself when it is a
\* <testsuite>, else the <testsuite> children of the root
ParseSuite ==
    /\ ppc = "junit"
    /\ Len(junit_suites) < (IF junit_root = "testsuite" THEN 1 ELSE MaxSuites)
    /\ \E suite \in SuiteAttribs :
         /\ junit_suites' = Append(junit_suites, suite)
         /\ test_stats' = <<AddStats(test_stats[1], suite)>>
    /\ UNCHANGED <<cov_report, junit_root, py_args, coverage, outputs, py_exit,
                   ppc>>
    /\ UNCHANGED otherThanPytest

\* parse_junit returns
ParseJunitReturn ==
    /\ ppc = "junit"
    /\ junit_root = "testsuite" => Len(junit_suites) = 1
    /\ ppc' = "parsed"
    /\ UNCHANGED <<cov_report, junit_root, junit_suites, py_args, coverage,
                   test_stats, outputs, py_exit>>
    /\ UNCHANGED otherThanPytest

\* check_exit: sys.exit(1)
CheckExitOne ==
    /\ ppc = "parsed"
    /\ py_args[1].check_exit
    /\ MustExit(test_stats[1], coverage[1], py_args[1].threshold)
    /\ py_exit' = <<1>>
    /\ ppc' = "exit"
    /\ UNCHANGED <<cov_report, junit_root, junit_suites, py_args, coverage,
                   test_stats, outputs>>
    /\ UNCHANGED otherThanPytest

\* check_exit returns, and so does cli(): exit status 0
CheckExitReturn ==
    /\ ppc = "parsed"
    /\ py_args[1].check_exit
    /\ ~MustExit(test_stats[1], coverage[1], py_args[1].threshold)
    /\ py_exit' = <<0>>
    /\ ppc' = "exit"
    /\ UNCHANGED <<cov_report, junit_root, junit_suites, py_args, coverage,
                   test_stats, outputs>>
    /\ UNCHANGED otherThanPytest

\* main(): the report is rendered and written, then the outputs
MainReport ==
    /\ ppc = "parsed"
    /\ ~py_args[1].check_exit
    /\ outputs' = <<[coverage |-> coverage[1],
                     failed |-> JunitData(test_stats[1]).failed]>>
    /\ py_exit' = <<0>>
    /\ ppc' = "exit"
    /\ UNCHANGED <<cov_report, junit_root, junit_suites, py_args, coverage,
                   test_stats>>
    /\ UNCHANGED otherThanPytest

PytestNext ==
    \/ PytestParseArgs
    \/ OutputMissing
    \/ ParseCoverage
    \/ ParseSuite
    \/ ParseJunitReturn
    \/ CheckExitOne
    \/ CheckExitReturn
    \/ MainReport

PytestSpec == PytestInit /\ [][PytestNext]_vars

\* ------------------------------------------------------------------------
\* Vocabulary of the properties of the pytest reporter
\* ------------------------------------------------------------------------
\* failures + errors summed over the suites
RECURSIVE FailuresAndErrors(_)
FailuresAndErrors(suites) ==
    IF suites = <<>> THEN 0
    ELSE IntAttrib(Head(suites), "failures") + IntAttrib(Head(suites), "errors")
             + FailuresAndErrors(Tail(suites))

\* check_exit has run to its end
CheckExitDone == ppc = "exit" /\ py_args # None /\ py_args[1].check_exit

\* ------------------------------------------------------------------------
\* C11: check_exit exits with status 1 exactly when failures + errors,
\* summed over the suites, is more than 0 or totals.percent_covered of the
\* coverage report is below the threshold; otherwise it returns and the
\* status is 0.
\* ------------------------------------------------------------------------
C11_ExitOneOnFailureOrLowCoverage ==
    CheckExitDone =>
        /\ py_exit \in {<<0>>, <<1>>}
        /\ py_exit = <<1>> <=>
             \/ FailuresAndErrors(junit_suites) > 0
             \/ PercentCovered(cov_report) < py_args[1].threshold

====
